---- MODULE Spec2Model ----
(***************************************************************************)
(* A model of parsers/jku_parser.py: the conversion of the JKU ground      *)
(* truth (a directory tree of occurrence CSV files) into JAMS documents.   *)
(*                                                                         *)
(* A path is the sequence of its "/"-separated segments.  A float is kept  *)
(* as an integer number of tenths (1.5 is 15, 60.0 is 600); an int is kept *)
(* as itself.  The file system read by the program is the variable fs; it  *)
(* is chosen by Init and never changes.                                    *)
(***************************************************************************)
EXTENDS Integers, Sequences, FiniteSets, TLC

VARIABLES
    fs,            \* the input tree under jku_dir (read-only environment)
    dirs,          \* the output directories that exist
    pc,            \* position of process(): start, discover, next, pattern, occ, rows, done, error
    pieces,        \* process: glob of <jku_dir>/groundTruth/*
    piece_i,       \* process: position of `for piece in pieces`
    type_i,        \* process: position of `for type in types`
    handed,        \* the annotator list passed to get_gt_patterns, one per iteration
    all_patterns,  \* process: all_patterns
    list_i,        \* process: position of `for patterns in all_patterns`
    out_file,      \* process: out_file, the result of get_out_file
    pattern_n,     \* parse_patterns: pattern_n
    occ_n,         \* parse_patterns: occ_n
    pat_i,         \* parse_patterns: position of `for pattern in patterns`
    occ_i,         \* parse_patterns: position of `for occ_file in pattern`
    f,             \* parse_patterns: the open file (a path), or <<>> when none is open
    row_i,         \* parse_patterns: position of `for fields in file_reader`
    data,          \* parse_patterns: annot.data, the observations added so far
    err,           \* the exception that left process(), or "none"
    out_fs,        \* the files written: a function from written path to document
    io_log         \* the opens, reads, closes and saves done so far, in order

vars == <<fs, dirs, pc, pieces, piece_i, type_i, handed, all_patterns, list_i, out_file,
          pattern_n, occ_n, pat_i, occ_i, f, row_i, data, err, out_fs, io_log>>

-----------------------------------------------------------------------------
(* Bounds of the model *)

MaxPieces == 2
MaxAnnotators == 3
MaxPatterns == 2
MaxOccs == 2
MaxRows == 2

-----------------------------------------------------------------------------
(* Names *)

types == <<"monophonic", "polyphonic">>

valid_annotators ==
    {"barlowAndMorgensternRevised", "bruhn", "schoenberg", "sectionalRepetitions",
     "tomCollins"}

OtherAnnotators == {"unknownGuy", "annotatorX", "collinsOld"}

AnnotatorNames == valid_annotators \cup OtherAnnotators

PieceNames == <<"bachBWV889Fg", "beethovenOp2No1Mvt3", "chopinOp24No4", "gibbonsSilverSwan1612">>

PatternNames == <<"A", "B", "C", "D">>

OccNames == <<"occ1.csv", "occ2.csv", "occ3.csv", "occ4.csv">>

out_dir == <<"out">>

SaveName == <<"test.jams">>

NoFile == <<>>

-----------------------------------------------------------------------------
(* float() and int() of a CSV field *)

Conv(ok, v) == [ok |-> ok, v |-> v]

\* float(s): the value in tenths, or a ValueError
ParseFloat(s) ==
    CASE s = "0.5"  -> Conv(TRUE, 5)
      [] s = "1.5"  -> Conv(TRUE, 15)
      [] s = "2.5"  -> Conv(TRUE, 25)
      [] s = "3.5"  -> Conv(TRUE, 35)
      [] s = "1"    -> Conv(TRUE, 10)
      [] s = "2"    -> Conv(TRUE, 20)
      [] s = "1.0"  -> Conv(TRUE, 10)
      [] s = "33"   -> Conv(TRUE, 330)
      [] s = "34"   -> Conv(TRUE, 340)
      [] s = "35"   -> Conv(TRUE, 350)
      [] s = "36"   -> Conv(TRUE, 360)
      [] s = "60"   -> Conv(TRUE, 600)
      [] s = "60.0" -> Conv(TRUE, 600)
      [] s = "61"   -> Conv(TRUE, 610)
      [] s = "62"   -> Conv(TRUE, 620)
      [] s = "63"   -> Conv(TRUE, 630)
      [] s = "64"   -> Conv(TRUE, 640)
      [] s = "65"   -> Conv(TRUE, 650)
      [] s = "66"   -> Conv(TRUE, 660)
      [] s = "67"   -> Conv(TRUE, 670)
      [] s = "6e1"  -> Conv(TRUE, 600)
      [] OTHER      -> Conv(FALSE, 0)

\* int(s): the value, or a ValueError (a decimal point or an exponent is refused)
ParseInt(s) ==
    CASE s = "1"  -> Conv(TRUE, 1)
      [] s = "2"  -> Conv(TRUE, 2)
      [] s = "33" -> Conv(TRUE, 33)
      [] s = "34" -> Conv(TRUE, 34)
      [] s = "35" -> Conv(TRUE, 35)
      [] s = "36" -> Conv(TRUE, 36)
      [] s = "60" -> Conv(TRUE, 60)
      [] s = "61" -> Conv(TRUE, 61)
      [] s = "62" -> Conv(TRUE, 62)
      [] s = "63" -> Conv(TRUE, 63)
      [] s = "64" -> Conv(TRUE, 64)
      [] s = "65" -> Conv(TRUE, 65)
      [] s = "66" -> Conv(TRUE, 66)
      [] s = "67" -> Conv(TRUE, 67)
      [] OTHER    -> Conv(FALSE, 0)

-----------------------------------------------------------------------------
(* The input tree.  fs.jku is jku_dir, fs.pieces the listing of            *)
(* groundTruth, fs.ann[p, t] the listing of <p>/<t>/repeatedPatterns (empty *)
(* when a directory of that level is missing), and Tree(p, t, a) the        *)
(* listing of an annotator directory: entries that are files, or pattern    *)
(* directories with their occurrences/csv/*.csv files, each a sequence of   *)
(* rows, each row the sequence of its fields.                              *)

Index(s, x) == CHOOSE i \in 1..Len(s) : s[i] = x /\ \A j \in 1..(i - 1) : s[j] # x

Pick(s, i) == s[((i - 1) % Len(s)) + 1]

TimeTokens == <<"0.5", "1.5", "2.5", "3.5">>

PitchTokens == <<"60", "61", "62", "63", "64", "65", "66", "67">>

MorphTokens == <<"33", "34", "35", "36">>

AnnotatorOrder ==
    <<"barlowAndMorgensternRevised", "bruhn", "schoenberg", "sectionalRepetitions",
      "tomCollins", "unknownGuy", "annotatorX", "collinsOld">>

\* row r of occurrence file o of pattern j of annotator a, in piece p and type t
GoodRow(p, t, a, j, o, r) ==
    <<Pick(TimeTokens, r),
      Pick(PitchTokens, Index(AnnotatorOrder, a) + Index(PieceNames, p) - 1),
      Pick(MorphTokens, j), Pick(TimeTokens, o),
      IF t = "monophonic" THEN "1" ELSE "2">>

PatternDir(occs) == [isdir |-> TRUE, occs |-> occs]

PlainFile == [isdir |-> FALSE, occs |-> <<>>]

DefaultTree(p, t, a) == <<PatternDir(<< <<GoodRow(p, t, a, 1, 1, 1)>> >>)>>

Tree(p, t, a) ==
    IF fs.where = <<p, t, a>> THEN fs.entries ELSE DefaultTree(p, t, a)

\* position of the groundTruth segment that process() appended to jku_dir
GT == Len(fs.jku) + 1

\* the rows of the CSV file at a path that get_gt_patterns returned
FileRows(path) ==
    Tree(path[GT + 1], path[GT + 2], path[GT + 4])
        [Index(PatternNames, path[GT + 5])].occs[Index(OccNames, path[GT + 8])]

-----------------------------------------------------------------------------
(* glob *)

\* glob(jku_dir/groundTruth/*)
GlobPieces == [i \in 1..Len(fs.pieces) |-> fs.jku \o <<"groundTruth", fs.pieces[i]>>]

\* glob(piece/type/repeatedPatterns/*)
GlobAnnotators(piece, type) ==
    LET names == fs.ann[piece[GT + 1], type]
    IN  [i \in 1..Len(names) |-> piece \o <<type, "repeatedPatterns", names[i]>>]

\* glob(annotator/*), with os.path.isdir of each entry
GlobEntries(annotator) ==
    LET es == Tree(annotator[GT + 1], annotator[GT + 2], annotator[GT + 4])
    IN  [i \in 1..Len(es) |->
            [path |-> Append(annotator, PatternNames[i]), isdir |-> es[i].isdir]]

\* glob(pattern/occurrences/csv/*.csv)
GlobOccurrences(pattern) ==
    LET es == Tree(pattern[GT + 1], pattern[GT + 2], pattern[GT + 4])
        n  == Len(es[Index(PatternNames, pattern[GT + 5])].occs)
    IN  [i \in 1..n |-> pattern \o <<"occurrences", "csv", OccNames[i]>>]

-----------------------------------------------------------------------------
(* get_out_file *)

Outcome(kind, val) == [kind |-> kind, val |-> val]

\* get_out_file without its assertion: the empty list fails at patterns[0] instead
get_out_file_NoAssert(patterns, dir) ==
    IF Len(patterns) = 0 \/ Len(patterns[1]) = 0 THEN Outcome("IndexError", <<>>)
    ELSE LET name_split == patterns[1][1]
             idx_offset == Index(name_split, "groundTruth") - 1
         IN  Outcome("ok", Append(dir, name_split[idx_offset + 2] \o "-" \o
                                       name_split[idx_offset + 3] \o ".txt"))

get_out_file(patterns, dir) ==
    IF ~(Len(patterns) > 0) THEN Outcome("AssertionError", <<>>)
    ELSE IF Len(patterns[1]) = 0 THEN Outcome("IndexError", <<>>)
    ELSE LET name_split == patterns[1][1]
         IN  IF \A i \in 1..Len(name_split) : name_split[i] # "groundTruth"
             THEN Outcome("ValueError", <<>>)
             ELSE LET idx_offset == Index(name_split, "groundTruth") - 1
                  IN  IF idx_offset + 3 > Len(name_split)
                      THEN Outcome("IndexError", <<>>)
                      ELSE Outcome("ok",
                               Append(dir, name_split[idx_offset + 2] \o "-" \o
                                           name_split[idx_offset + 3] \o ".txt"))

-----------------------------------------------------------------------------
(* get_gt_patterns *)

RECURSIVE PatternsOf(_, _)
\* the inner loop of get_gt_patterns over the entries of one annotator, from entry i
PatternsOf(entries, i) ==
    IF i > Len(entries) THEN <<>>
    ELSE IF entries[i].isdir
         THEN <<GlobOccurrences(entries[i].path)>> \o PatternsOf(entries, i + 1)
         ELSE PatternsOf(entries, i + 1)

RECURSIVE get_gt_patterns_from(_, _)
get_gt_patterns_from(annotators, i) ==
    IF i > Len(annotators) THEN <<>>
    ELSE PatternsOf(GlobEntries(annotators[i]), 1) \o get_gt_patterns_from(annotators, i + 1)

get_gt_patterns(annotators) == get_gt_patterns_from(annotators, 1)

-----------------------------------------------------------------------------
(* The annotator filter of process() *)

\* list.remove(x): the list without the first element equal to x
Remove(lst, x) ==
    LET k == Index(lst, x)
    IN  [i \in 1..(Len(lst) - 1) |-> IF i < k THEN lst[i] ELSE lst[i + 1]]

\* os.path.split(path)[1]
Basename(path) == path[Len(path)]

RECURSIVE FilterLoop(_, _)
\* `for annotator in annotators`: the iterator is at index i of the list being changed
FilterLoop(lst, i) ==
    IF i > Len(lst) THEN lst
    ELSE IF Basename(lst[i]) \notin valid_annotators
         THEN FilterLoop(Remove(lst, lst[i]), i + 1)
         ELSE FilterLoop(lst, i + 1)

\* the list that reaches get_gt_patterns for a type
FilterAnnotators(type, annotators) ==
    IF type = "polyphonic" THEN FilterLoop(annotators, 1) ELSE annotators

-----------------------------------------------------------------------------
(* One row of parse_patterns: the value dict is built first (fields 1, 2,   *)
(* 4), then time (field 0) and duration (field 3) are converted.           *)

\* a row check that only counts the fields and lets an unconvertible field through
RowError_LengthOnly(fields) == IF Len(fields) < 5 THEN "IndexError" ELSE "none"

RowError(fields) ==
    IF Len(fields) < 2 THEN "IndexError"
    ELSE IF ~ParseFloat(fields[2]).ok THEN "ValueError"
    ELSE IF Len(fields) < 3 THEN "IndexError"
    ELSE IF ~ParseFloat(fields[3]).ok THEN "ValueError"
    ELSE IF Len(fields) < 5 THEN "IndexError"
    ELSE IF ~ParseInt(fields[5]).ok THEN "ValueError"
    ELSE IF ~ParseFloat(fields[1]).ok THEN "ValueError"
    ELSE IF ~ParseFloat(fields[4]).ok THEN "ValueError"
    ELSE "none"

\* an observation with the time and duration columns exchanged
Observation_Swapped(fields, pn, on) ==
    [time     |-> ParseFloat(fields[4]).v,
     duration |-> ParseFloat(fields[1]).v,
     value    |-> [midi_pitch    |-> ParseFloat(fields[2]).v,
                   morph_pitch   |-> ParseFloat(fields[3]).v,
                   staff         |-> ParseInt(fields[5]).v,
                   pattern_id    |-> pn,
                   occurrence_id |-> on]]

Observation(fields, pn, on) ==
    [time     |-> ParseFloat(fields[1]).v,
     duration |-> ParseFloat(fields[4]).v,
     value    |-> [midi_pitch    |-> ParseFloat(fields[2]).v,
                   morph_pitch   |-> ParseFloat(fields[3]).v,
                   staff         |-> ParseInt(fields[5]).v,
                   pattern_id    |-> pn,
                   occurrence_id |-> on]]

-----------------------------------------------------------------------------
(* The output files *)

WriteFile(files, path, doc) ==
    [p \in DOMAIN files \cup {path} |-> IF p = path THEN doc ELSE files[p]]

Event(op, file, list) == [op |-> op, file |-> file, list |-> list]

-----------------------------------------------------------------------------
(* Input trees.  Datasets is the union of five families, each varying one  *)
(* level of the tree: the pieces and the directories present under them,   *)
(* the annotator listing of one type, the shape of one annotator's         *)
(* patterns, the fields of one row, and jku_dir itself.                    *)

Dataset(jku, ps, ann, where, entries) ==
    [jku |-> jku, pieces |-> ps, ann |-> ann, where |-> where, entries |-> entries]

NoWhere == <<>>

Pairs == {<<PieceNames[i], types[j]>> : i \in 1..Len(PieceNames), j \in 1..2}

Range(s) == {s[i] : i \in 1..Len(s)}

RECURSIVE DistinctSeqs(_, _)
\* the sequences of at most n distinct elements of S
DistinctSeqs(S, n) ==
    IF n = 0 THEN {<<>>}
    ELSE LET prev == DistinctSeqs(S, n - 1)
         IN  prev \cup UNION {{Append(s, x) : x \in S \ Range(s)} : s \in prev}

RECURSIVE SeqsUpTo(_, _)
\* the sequences of at most n elements of S
SeqsUpTo(S, n) ==
    IF n = 0 THEN {<<>>}
    ELSE LET prev == SeqsUpTo(S, n - 1)
         IN  prev \cup {Append(s, x) : s \in prev, x \in S}

Piece1 == PieceNames[1]

MonoDefault == <<"annotatorX">>

PolyDefault == <<"bruhn">>

\* one piece with one annotator of each type
OnePiece(mono, poly) ==
    [pt \in Pairs |-> IF pt = <<Piece1, "monophonic">> THEN mono
                      ELSE IF pt = <<Piece1, "polyphonic">> THEN poly
                      ELSE <<>>]

DefaultAnn(t) == IF t = "monophonic" THEN MonoDefault ELSE PolyDefault

\* pieces in any order; each <piece>/<type>/repeatedPatterns is missing or has one annotator
PieceDatasets ==
    UNION {{Dataset(<<"JKUPDD">>, ps,
                    [pt \in Pairs |-> IF pt \in present THEN DefaultAnn(pt[2]) ELSE <<>>],
                    NoWhere, <<>>) :
                present \in SUBSET (Range(ps) \X Range(types))} :
           ps \in DistinctSeqs({PieceNames[i] : i \in 1..MaxPieces}, MaxPieces)}

AnnotatorLists == DistinctSeqs(AnnotatorNames, MaxAnnotators)

\* one piece; the annotator listing of one type is any list of distinct names
FilterDatasets ==
    {Dataset(<<"JKUPDD">>, <<Piece1>>, OnePiece(MonoDefault, poly), NoWhere, <<>>) :
        poly \in AnnotatorLists} \cup
    {Dataset(<<"JKUPDD">>, <<Piece1>>, OnePiece(mono, PolyDefault), NoWhere, <<>>) :
        mono \in AnnotatorLists}

\* a row with fewer than 5 fields
ShortRow(p, t, a, j, o, r) == SubSeq(GoodRow(p, t, a, j, o, r), 1, 4)

\* the rows of a file: n rows, the row number bad (if any) being short
RowsOf(p, t, a, j, o, n, bad) ==
    [r \in 1..n |-> IF r = bad THEN ShortRow(p, t, a, j, o, r) ELSE GoodRow(p, t, a, j, o, r)]

\* pattern directories with counts[j] occurrence files of one row each, except the
\* file number so of pattern number sj, which has n rows
ShapeEntries(p, t, a, counts, sj, so, n, bad) ==
    [j \in 1..Len(counts) |->
        PatternDir([o \in 1..counts[j] |->
            IF j = sj /\ o = so THEN RowsOf(p, t, a, j, o, n, bad)
            ELSE RowsOf(p, t, a, j, o, 1, 0)])]

InsertAt(s, i, x) == SubSeq(s, 1, i - 1) \o <<x>> \o SubSeq(s, i, Len(s))

OccCounts == SeqsUpTo(0..MaxOccs, MaxPatterns)

\* one piece; the monophonic annotator has any number of patterns and of occurrence
\* files, one file has any number of rows and at most one short row; or the annotator
\* directory also holds a plain file among its pattern directories
ShapeDatasets ==
    {Dataset(<<"JKUPDD">>, <<Piece1>>, OnePiece(MonoDefault, PolyDefault),
             <<Piece1, "monophonic", "annotatorX">>,
             ShapeEntries(Piece1, "monophonic", "annotatorX", c[1], c[2], c[3], c[4], c[5])) :
        c \in {c \in OccCounts \X (0..MaxPatterns) \X (0..MaxOccs) \X (0..MaxRows) \X (0..MaxRows) :
                  /\ c[2] = 0 => (c[3] = 0 /\ c[4] = 0 /\ c[5] = 0)
                  /\ c[2] > 0 => (c[2] <= Len(c[1]) /\ c[3] >= 1 /\ c[3] <= c[1][c[2]])
                  /\ c[5] <= c[4]
                  /\ ~(c[2] > 0 /\ c[4] = 1 /\ c[5] = 0)}} \cup
    {Dataset(<<"JKUPDD">>, <<Piece1>>, OnePiece(MonoDefault, PolyDefault),
             <<Piece1, "monophonic", "annotatorX">>,
             InsertAt(ShapeEntries(Piece1, "monophonic", "annotatorX", c[1], 0, 0, 0, 0),
                      c[2], PlainFile)) :
        c \in {c \in OccCounts \X (1..(MaxPatterns + 1)) : c[2] <= Len(c[1]) + 1}}

RowTokens == {"1.5", "60", "60.0", "6e1", "1", "1.0", "abc", ""}

BaseRow == <<"1.5", "60", "33", "0.5", "1">>

\* the rows that differ from BaseRow in one place: one field replaced, fields cut off
\* the end, or fields added after the fifth
Rows ==
    {[BaseRow EXCEPT ![i] = tok] : i \in 1..5, tok \in RowTokens} \cup
    {SubSeq(BaseRow, 1, n) : n \in 0..5} \cup
    {BaseRow \o <<tok>> : tok \in {"abc", "7"}}

\* one piece; the occurrence file of the polyphonic annotator has up to MaxRows rows,
\* one of them any of Rows
RowDatasets ==
    {Dataset(<<"JKUPDD">>, <<Piece1>>, OnePiece(MonoDefault, PolyDefault),
             <<Piece1, "polyphonic", "bruhn">>,
             <<PatternDir(<<[r \in 1..c[1] |->
                  IF r = c[2] THEN c[3] ELSE GoodRow(Piece1, "polyphonic", "bruhn", 1, 1, r)]>>)>>) :
        c \in {c \in (1..MaxRows) \X (1..MaxRows) \X Rows : c[2] <= c[1]}}

\* jku_dir: relative, absolute, and with a groundTruth segment of its own
JkuDatasets ==
    {Dataset(jku, <<Piece1>>, OnePiece(MonoDefault, PolyDefault), NoWhere, <<>>) :
        jku \in {<<"data", "JKUPDD">>, <<"", "data", "JKUPDD">>, <<"groundTruth", "JKUPDD">>}}

Datasets == PieceDatasets \cup FilterDatasets \cup ShapeDatasets \cup RowDatasets \cup JkuDatasets

-----------------------------------------------------------------------------
(* process() *)

Init ==
    /\ fs \in Datasets
    /\ dirs \in {{}, {out_dir}}
    /\ pc = "start"
    /\ pieces = <<>>
    /\ piece_i = 1
    /\ type_i = 1
    /\ handed = <<>>
    /\ all_patterns = <<>>
    /\ list_i = 1
    /\ out_file = <<>>
    /\ pattern_n = 1
    /\ occ_n = 1
    /\ pat_i = 1
    /\ occ_i = 1
    /\ f = NoFile
    /\ row_i = 1
    /\ data = <<>>
    /\ err = "none"
    /\ out_fs = <<>>
    /\ io_log = <<>>

parse_vars == <<pattern_n, occ_n, pat_i, occ_i, f, row_i, data>>

\* lines 133-144: out_dir is made if absent; the piece listing; the empty all_patterns
Start ==
    /\ pc = "start"
    /\ dirs' = IF out_dir \notin dirs THEN dirs \cup {out_dir} ELSE dirs
    /\ pieces' = GlobPieces
    /\ all_patterns' = <<>>
    /\ piece_i' = 1
    /\ type_i' = 1
    /\ pc' = IF Len(GlobPieces) = 0 THEN "next" ELSE "discover"
    /\ UNCHANGED <<fs, handed, list_i, out_file, parse_vars, err, out_fs, io_log>>

\* an iteration that appends the pattern list only when it is not empty
Discover_SkipEmpty ==
    /\ pc = "discover"
    /\ LET type == types[type_i]
           annotators == FilterAnnotators(type, GlobAnnotators(pieces[piece_i], type))
       IN  /\ handed' = Append(handed, annotators)
           /\ all_patterns' = IF get_gt_patterns(annotators) = <<>> THEN all_patterns
                              ELSE Append(all_patterns, get_gt_patterns(annotators))
    /\ IF type_i < Len(types)
       THEN /\ type_i' = type_i + 1
            /\ UNCHANGED <<piece_i, pc>>
       ELSE /\ type_i' = 1
            /\ piece_i' = piece_i + 1
            /\ pc' = IF piece_i < Len(pieces) THEN "discover" ELSE "next"
    /\ UNCHANGED <<fs, dirs, pieces, list_i, out_file, parse_vars, err, out_fs, io_log>>

\* lines 147-164: one iteration of `for type in types` for the current piece
Discover ==
    /\ pc = "discover"
    /\ LET type == types[type_i]
           annotators == FilterAnnotators(type, GlobAnnotators(pieces[piece_i], type))
       IN  /\ handed' = Append(handed, annotators)
           /\ all_patterns' = Append(all_patterns, get_gt_patterns(annotators))
    /\ IF type_i < Len(types)
       THEN /\ type_i' = type_i + 1
            /\ UNCHANGED <<piece_i, pc>>
       ELSE /\ type_i' = 1
            /\ piece_i' = piece_i + 1
            /\ pc' = IF piece_i < Len(pieces) THEN "discover" ELSE "next"
    /\ UNCHANGED <<fs, dirs, pieces, list_i, out_file, parse_vars, err, out_fs, io_log>>

\* lines 167-168 and 56-66: the next list, its output file, the empty annotation
GetOutFile ==
    /\ pc = "next"
    /\ list_i <= Len(all_patterns)
    /\ get_out_file(all_patterns[list_i], out_dir).kind = "ok"
    /\ out_file' = get_out_file(all_patterns[list_i], out_dir).val
    /\ data' = <<>>
    /\ pattern_n' = 1
    /\ pat_i' = 1
    /\ pc' = "pattern"
    /\ UNCHANGED <<fs, dirs, pieces, piece_i, type_i, handed, all_patterns, list_i,
                   occ_n, occ_i, f, row_i, err, out_fs, io_log>>

\* line 168: get_out_file raises
GetOutFileFail ==
    /\ pc = "next"
    /\ list_i <= Len(all_patterns)
    /\ get_out_file(all_patterns[list_i], out_dir).kind # "ok"
    /\ err' = get_out_file(all_patterns[list_i], out_dir).kind
    /\ pc' = "error"
    /\ UNCHANGED <<fs, dirs, pieces, piece_i, type_i, handed, all_patterns, list_i, out_file,
                   parse_vars, out_fs, io_log>>

\* a pattern loop that does not set occ_n back to 1
BeginPattern_NoReset ==
    /\ pc = "pattern"
    /\ pat_i <= Len(all_patterns[list_i])
    /\ occ_i' = 1
    /\ pc' = "occ"
    /\ UNCHANGED <<fs, dirs, pieces, piece_i, type_i, handed, all_patterns, list_i, out_file,
                   pattern_n, occ_n, pat_i, f, row_i, data, err, out_fs, io_log>>

\* lines 67-68: the next pattern of the list
BeginPattern ==
    /\ pc = "pattern"
    /\ pat_i <= Len(all_patterns[list_i])
    /\ occ_n' = 1
    /\ occ_i' = 1
    /\ pc' = "occ"
    /\ UNCHANGED <<fs, dirs, pieces, piece_i, type_i, handed, all_patterns, list_i, out_file,
                   pattern_n, pat_i, f, row_i, data, err, out_fs, io_log>>

\* lines 69-71: the next occurrence file of the pattern is opened
OpenOcc ==
    /\ pc = "occ"
    /\ occ_i <= Len(all_patterns[list_i][pat_i])
    /\ f' = all_patterns[list_i][pat_i][occ_i]
    /\ row_i' = 1
    /\ io_log' = Append(io_log, Event("open", all_patterns[list_i][pat_i][occ_i], list_i))
    /\ pc' = "rows"
    /\ UNCHANGED <<fs, dirs, pieces, piece_i, type_i, handed, all_patterns, list_i, out_file,
                   pattern_n, occ_n, pat_i, occ_i, data, err, out_fs>>

\* lines 72-82: one row becomes one observation
ReadRow ==
    /\ pc = "rows"
    /\ row_i <= Len(FileRows(f))
    /\ RowError(FileRows(f)[row_i]) = "none"
    /\ data' = Append(data, Observation(FileRows(f)[row_i], pattern_n, occ_n))
    /\ row_i' = row_i + 1
    /\ io_log' = Append(io_log, Event("read", f, list_i))
    /\ UNCHANGED <<fs, dirs, pc, pieces, piece_i, type_i, handed, all_patterns, list_i, out_file,
                   pattern_n, occ_n, pat_i, occ_i, f, err, out_fs>>

\* a failing row that leaves the file open (no with block)
ReadRowFail_NoClose ==
    /\ pc = "rows"
    /\ row_i <= Len(FileRows(f))
    /\ RowError(FileRows(f)[row_i]) # "none"
    /\ err' = RowError(FileRows(f)[row_i])
    /\ io_log' = Append(io_log, Event("read", f, list_i))
    /\ pc' = "error"
    /\ UNCHANGED <<fs, dirs, pieces, piece_i, type_i, handed, all_patterns, list_i, out_file,
                   pattern_n, occ_n, pat_i, occ_i, f, row_i, data, out_fs>>

\* lines 70-82: a row raises; the with block closes the file and the error leaves process()
ReadRowFail ==
    /\ pc = "rows"
    /\ row_i <= Len(FileRows(f))
    /\ RowError(FileRows(f)[row_i]) # "none"
    /\ err' = RowError(FileRows(f)[row_i])
    /\ io_log' = Append(Append(io_log, Event("read", f, list_i)), Event("close", f, list_i))
    /\ f' = NoFile
    /\ pc' = "error"
    /\ UNCHANGED <<fs, dirs, pieces, piece_i, type_i, handed, all_patterns, list_i, out_file,
                   pattern_n, occ_n, pat_i, occ_i, row_i, data, out_fs>>

\* lines 70-83: the rows are exhausted, the file is closed, occ_n += 1
CloseOcc ==
    /\ pc = "rows"
    /\ row_i > Len(FileRows(f))
    /\ io_log' = Append(io_log, Event("close", f, list_i))
    /\ f' = NoFile
    /\ occ_n' = occ_n + 1
    /\ occ_i' = occ_i + 1
    /\ pc' = "occ"
    /\ UNCHANGED <<fs, dirs, pieces, piece_i, type_i, handed, all_patterns, list_i, out_file,
                   pattern_n, pat_i, row_i, data, err, out_fs>>

\* line 84: the occurrences are exhausted, pattern_n += 1
EndPattern ==
    /\ pc = "occ"
    /\ occ_i > Len(all_patterns[list_i][pat_i])
    /\ pattern_n' = pattern_n + 1
    /\ pat_i' = pat_i + 1
    /\ pc' = "pattern"
    /\ UNCHANGED <<fs, dirs, pieces, piece_i, type_i, handed, all_patterns, list_i, out_file,
                   occ_n, occ_i, f, row_i, data, err, out_fs, io_log>>

\* lines 86-90: the patterns are exhausted, the document is saved
Save ==
    /\ pc = "pattern"
    /\ pat_i > Len(all_patterns[list_i])
    /\ out_fs' = WriteFile(out_fs, SaveName, data)
    /\ io_log' = Append(io_log, Event("save", SaveName, list_i))
    /\ list_i' = list_i + 1
    /\ pc' = "next"
    /\ UNCHANGED <<fs, dirs, pieces, piece_i, type_i, handed, all_patterns, out_file,
                   parse_vars, err>>

\* line 167: all_patterns is exhausted, process() returns
Finish ==
    /\ pc = "next"
    /\ list_i > Len(all_patterns)
    /\ pc' = "done"
    /\ UNCHANGED <<fs, dirs, pieces, piece_i, type_i, handed, all_patterns, list_i, out_file,
                   parse_vars, err, out_fs, io_log>>

Next ==
    \/ Start
    \/ Discover
    \/ GetOutFile
    \/ GetOutFileFail
    \/ BeginPattern
    \/ OpenOcc
    \/ ReadRow
    \/ ReadRowFail
    \/ CloseOcc
    \/ EndPattern
    \/ Save
    \/ Finish

Spec == Init /\ [][Next]_vars

-----------------------------------------------------------------------------
(* Vocabulary of the properties *)

\* the piece directory and the annotation type of the k-th list of all_patterns
PieceOfList(k) == pieces[(k + 1) \div 2]

TypeOfList(k) == types[((k - 1) % 2) + 1]

\* the listing of annotator directories that process() found for the k-th list
Discovered(k) == GlobAnnotators(PieceOfList(k), TypeOfList(k))

AllowListed(annotator) == Basename(annotator) \in valid_annotators

RECURSIVE Concat(_)
Concat(ss) == IF ss = <<>> THEN <<>> ELSE Head(ss) \o Concat(Tail(ss))

\* the annotators of piece name p that the specification calls valid for type t
ValidNames(p, t) ==
    IF t = "polyphonic"
    THEN SelectSeq(fs.ann[p, t], LAMBDA a : a \in valid_annotators)
    ELSE fs.ann[p, t]

\* the occurrence files (as row sequences) of the pattern directories of an annotator
PatternFiles(p, t, a) ==
    LET kept == SelectSeq(Tree(p, t, a), LAMBDA e : e.isdir)
    IN  [j \in 1..Len(kept) |-> kept[j].occs]

\* the patterns of piece name p under its valid annotators, monophonic then polyphonic
PiecePatterns(p) ==
    Concat([i \in 1..Len(ValidNames(p, "monophonic")) |->
                PatternFiles(p, "monophonic", ValidNames(p, "monophonic")[i])]) \o
    Concat([i \in 1..Len(ValidNames(p, "polyphonic")) |->
                PatternFiles(p, "polyphonic", ValidNames(p, "polyphonic")[i])])

\* the observations of a pattern list given as row sequences, in pattern, occurrence
\* and row order, with 1-based pattern and occurrence numbers
ObservationsOf(P) ==
    Concat([j \in 1..Len(P) |->
        Concat([o \in 1..Len(P[j]) |->
            [r \in 1..Len(P[j][o]) |-> Observation(P[j][o][r], j, o)]])])

SaveEvents == {i \in 1..Len(io_log) : io_log[i].op = "save"}

\* the path get_out_file computes for the k-th list
ResolvedPath(k) == get_out_file(all_patterns[k], out_dir).val

-----------------------------------------------------------------------------
(* C1: after process() has finished, for every piece with at least one     *)
(* valid annotator and one pattern some written document holds exactly the  *)
(* observations of all occurrence files under the piece's valid annotators, *)
(* monophonic and polyphonic in one pattern list, in pattern, occurrence    *)
(* and row order.                                                          *)
C1_PieceDocument ==
    pc = "done" =>
        \A i \in 1..Len(fs.pieces) :
            Len(PiecePatterns(fs.pieces[i])) > 0 =>
                \E path \in DOMAIN out_fs :
                    out_fs[path] = ObservationsOf(PiecePatterns(fs.pieces[i]))

(* C2: after process() has finished on two or more pieces, every list's    *)
(* document is in the file that get_out_file resolved for it, and there are *)
(* at least as many files as pieces.                                       *)
C2_OneFilePerPiece ==
    (pc = "done" /\ Len(pieces) >= 2) =>
        /\ \A k \in 1..Len(all_patterns) : ResolvedPath(k) \in DOMAIN out_fs
        /\ Cardinality(DOMAIN out_fs) >= Len(pieces)

(* C3: the list handed to get_gt_patterns is, for polyphonic, the          *)
(* discovered list without the directories whose name is not allow-listed   *)
(* (all allow-listed ones kept, in order), and for monophonic the           *)
(* discovered list unchanged.                                              *)
C3_FilteredList ==
    \A k \in 1..Len(handed) :
        IF TypeOfList(k) = "polyphonic"
        THEN handed[k] = SelectSeq(Discovered(k), AllowListed)
        ELSE handed[k] = Discovered(k)

(* C8: get_out_file returns, for every non-empty pattern list, the name    *)
(* made of the two segments after groundTruth joined by a hyphen, under     *)
(* out_dir, and fails for the empty list only.                             *)
C8_NonEmptyGivesName ==
    \A k \in 1..Len(all_patterns) :
        LET r == get_out_file(all_patterns[k], out_dir)
            piece == PieceOfList(k)
            g == Index(piece, "groundTruth")
        IN  IF Len(all_patterns[k]) = 0
            THEN r.kind # "ok"
            ELSE /\ r.kind = "ok"
                 /\ r.val = Append(out_dir, (piece \o <<TypeOfList(k)>>)[g + 1] \o "-" \o
                                            (piece \o <<TypeOfList(k)>>)[g + 2] \o ".txt")

-----------------------------------------------------------------------------
(* More vocabulary: the lists as rows, and the events of a list *)

\* the k-th list of all_patterns with every occurrence file replaced by its rows
RowsOfList(k) ==
    [j \in 1..Len(all_patterns[k]) |->
        [o \in 1..Len(all_patterns[k][j]) |-> FileRows(all_patterns[k][j][o])]]

FilesOfList(k) ==
    {all_patterns[k][j][o] : <<j, o>> \in
        {jo \in (1..Len(all_patterns[k])) \X (1..(MaxOccs + 1)) :
            jo[2] <= Len(all_patterns[k][jo[1]])}}

\* parse_patterns has added every observation of the current list and is about to save
DocComplete == pc = "pattern" /\ pat_i > Len(all_patterns[list_i])

PatternIds(doc) == {doc[i].value.pattern_id : i \in 1..Len(doc)}

OccurrenceIds(doc, j) ==
    {doc[i].value.occurrence_id : i \in {n \in 1..Len(doc) : doc[n].value.pattern_id = j}}

\* the row has fewer than 5 fields, or one of the 5 does not convert to its type
Malformed(fields) ==
    \/ Len(fields) < 5
    \/ /\ Len(fields) >= 5
       /\ \/ \E i \in {1, 2, 3, 4} : ~ParseFloat(fields[i]).ok
          \/ ~ParseInt(fields[5]).ok

HasMalformed(k) ==
    \E j \in 1..Len(RowsOfList(k)) : \E o \in 1..Len(RowsOfList(k)[j]) :
        \E r \in 1..Len(RowsOfList(k)[j][o]) : Malformed(RowsOfList(k)[j][o][r])

\* process() was left by an error raised while a row was read
RowFailed == pc = "error" /\ io_log # <<>> /\ io_log[Len(io_log)].op = "close"

EventsOf(file) == {i \in 1..Len(io_log) : io_log[i].op # "save" /\ io_log[i].file = file}

\* the file was opened once, read row by row and closed, all before position s
ReadAndClosedBefore(file, s) ==
    \E a \in 1..Len(io_log) : \E b \in 1..Len(io_log) :
        /\ a < b /\ b < s
        /\ io_log[a] = Event("open", file, io_log[a].list)
        /\ io_log[b] = Event("close", file, io_log[a].list)
        /\ EventsOf(file) = a..b
        /\ b - a - 1 = Len(FileRows(file))
        /\ \A i \in (a + 1)..(b - 1) : io_log[i].op = "read"

-----------------------------------------------------------------------------
(* C4 as stated: in a finished document all ids are >= 1, the pattern ids  *)
(* present are 1..k without a gap, and the occurrence ids present within a  *)
(* pattern are 1..m without a gap.                                         *)
C4_IdsPresentContiguous ==
    DocComplete =>
        /\ \A i \in 1..Len(data) :
               data[i].value.pattern_id >= 1 /\ data[i].value.occurrence_id >= 1
        /\ PatternIds(data) = 1..Cardinality(PatternIds(data))
        /\ \A j \in PatternIds(data) :
               OccurrenceIds(data, j) = 1..Cardinality(OccurrenceIds(data, j))

(* C4 amended: in a finished document all ids are >= 1 and never decrease  *)
(* (pattern id first, occurrence id second); a pattern id is the position   *)
(* of the pattern in the list and an occurrence id the position of the file *)
(* in its pattern, so the ids present are exactly the positions of the      *)
(* patterns and files that have at least one row: contiguous from 1 when    *)
(* no pattern and no file is empty, with gaps where one is.                *)
C4_IdsArePositions ==
    DocComplete =>
        LET R == RowsOfList(list_i)
            NonEmptyFiles(j) == {o \in 1..Len(R[j]) : Len(R[j][o]) > 0}
            NonEmptyPatterns == {j \in 1..Len(R) : NonEmptyFiles(j) # {}}
        IN  /\ \A i \in 1..Len(data) :
                   data[i].value.pattern_id >= 1 /\ data[i].value.occurrence_id >= 1
            /\ \A i \in 1..(Len(data) - 1) :
                   \/ data[i].value.pattern_id < data[i + 1].value.pattern_id
                   \/ /\ data[i].value.pattern_id = data[i + 1].value.pattern_id
                      /\ data[i].value.occurrence_id <= data[i + 1].value.occurrence_id
            /\ PatternIds(data) = NonEmptyPatterns
            /\ \A j \in 1..Len(R) : OccurrenceIds(data, j) = NonEmptyFiles(j)
            /\ (NonEmptyPatterns = 1..Len(R) /\ \A j \in 1..Len(R) : NonEmptyFiles(j) = 1..Len(R[j]))
                   => C4_IdsPresentContiguous

\* a finished document whose pattern ids or occurrence ids have a gap
C4_Witness ==
    /\ DocComplete
    /\ Len(data) > 0
    /\ \/ PatternIds(data) # 1..Cardinality(PatternIds(data))
       \/ \E j \in PatternIds(data) :
              OccurrenceIds(data, j) # 1..Cardinality(OccurrenceIds(data, j))

-----------------------------------------------------------------------------
-----------------------------------------------------------------------------
-----------------------------------------------------------------------------
(* C7: while a file is read, every row consumed so far has given exactly   *)
(* one observation, in row order, with time from column 0, midi_pitch from  *)
(* column 1, morph_pitch from column 2, duration from column 3 and staff    *)
(* from column 4; the first row is data too; columns after the fifth change *)
(* nothing; the row 1.5,60,33,0.5,1 gives 1.5, 60, 33, 0.5 and 1.          *)
C7_RowToObservation ==
    pc = "rows" =>
        LET rows == FileRows(f)
            R == RowsOfList(list_i)
            before == Len(Concat(Concat(SubSeq(R, 1, pat_i - 1)))) +
                      Len(Concat(SubSeq(R[pat_i], 1, occ_i - 1)))
        IN  /\ Len(data) = before + (row_i - 1)
            /\ \A r \in 1..(row_i - 1) :
                   LET o == data[before + r]
                       fields == rows[r]
                   IN  /\ Len(fields) >= 5
                       /\ o.time = ParseFloat(fields[1]).v
                       /\ o.value.midi_pitch = ParseFloat(fields[2]).v
                       /\ o.value.morph_pitch = ParseFloat(fields[3]).v
                       /\ o.duration = ParseFloat(fields[4]).v
                       /\ o.value.staff = ParseInt(fields[5]).v
                       /\ o.value.pattern_id = pat_i
                       /\ o.value.occurrence_id = occ_i
                       /\ SubSeq(fields, 1, 5) = <<"1.5", "60", "33", "0.5", "1">> =>
                              /\ o.time = 15
                              /\ o.value.midi_pitch = 600
                              /\ o.value.morph_pitch = 330
                              /\ o.duration = 5
                              /\ o.value.staff = 1

\* the row 1.5,60,33,0.5,1 followed by a sixth column was read as the first row
C7_Witness ==
    /\ pc = "rows"
    /\ row_i = 2
    /\ Len(FileRows(f)[1]) = 6
    /\ SubSeq(FileRows(f)[1], 1, 5) = <<"1.5", "60", "33", "0.5", "1">>
    /\ Len(data) = 1

-----------------------------------------------------------------------------
-----------------------------------------------------------------------------
(* C10: process() is two-phase and works per (piece, type) pair: during    *)
(* discovery one list is appended per pair, in piece order with monophonic  *)
(* before polyphonic, and nothing is resolved, read or saved; afterwards    *)
(* there are 2 x pieces lists, handled in that order; a run that completes  *)
(* has saved 2 x pieces documents, and a run left by an error while         *)
(* handling list i has saved lists 1..i-1 only and does nothing more.      *)
C10_TwoPhase ==
    /\ pc = "discover" =>
           /\ Len(all_patterns) = 2 * (piece_i - 1) + (type_i - 1)
           /\ io_log = <<>> /\ out_file = <<>> /\ out_fs = <<>> /\ list_i = 1
    /\ pc \notin {"start", "discover"} => Len(all_patterns) = 2 * Len(pieces)
    /\ \A k \in 1..Len(all_patterns) :
           /\ \A i \in 1..Len(handed[k]) : handed[k][i] \in Range(Discovered(k))
           /\ \A file \in FilesOfList(k) :
                  /\ SubSeq(file, 1, Len(PieceOfList(k))) = PieceOfList(k)
                  /\ file[Len(PieceOfList(k)) + 1] = TypeOfList(k)
    /\ \A i \in 1..Len(io_log) :
           io_log[i].list = Cardinality({s \in SaveEvents : s < i}) + 1
    /\ pc \in {"next", "done", "error"} => Cardinality(SaveEvents) = list_i - 1
    /\ pc = "done" => Cardinality(SaveEvents) = 2 * Len(pieces)
    /\ pc = "error" => (list_i <= Len(all_patterns) /\ ~ENABLED Next)

\* two pieces were discovered and all four lists saved
C10_Witness ==
    /\ pc = "done"
    /\ Len(pieces) = 2
    /\ Cardinality(SaveEvents) = 4

\* an error while handling the third of four lists
C10_WitnessError ==
    /\ pc = "error"
    /\ Len(all_patterns) = 4
    /\ list_i = 3

====
